---- MODULE Spec2Model ----
(***************************************************************************)
(* State-machine model of the tasd-cli viewer (src/src/app.rs, main.rs,    *)
(* ui/components.rs): the record-stream derivations, the cursor, the       *)
(* visible window, the vim-style count prefix, the mode dispatch and the   *)
(* command line.                                                           *)
(*                                                                         *)
(* usize / isize are modelled with UsizeBits bits instead of 64, so that   *)
(* the wrap-around of the unchecked `+`, `-`, `*` and of `as isize` is     *)
(* within TLC's reach.  A build with overflow checks (the debug profile)   *)
(* panics where a build without them (the release profile) wraps; which    *)
(* one runs is fixed at start-up in overflow_checks.                       *)
(***************************************************************************)
EXTENDS Integers, Sequences, FiniteSets, TLC

(* ------------------------------ bounds -------------------------------- *)

\* width of usize / isize in the model (64 on the usual target)
UsizeBits == 5
\* largest TotalFrames value / chunk length sum a session is started with
MaxTotal == 4
\* largest number of inner rows of the input panel the renderer reports
MaxRows == 5
\* most digit keys fed to the count prefix before it is consumed
MaxDigits == 2
\* most records of a stream in the derivation specification
MaxPackets == 3
\* largest frames value of a TotalFrames record in the derivation specification
MaxFrames == 2
\* largest viewport height tried in the reconcile specification
MaxHeight == 3

(* ------------------------- program constants --------------------------- *)

\* DisplaySettings::new: max_visible_inputs: 20
DefaultVisibleInputs == 20

(* --------------------------- machine integers -------------------------- *)

UsizeModulus == 2 ^ UsizeBits
UsizeMax == UsizeModulus - 1
IsizeMax == (UsizeModulus \div 2) - 1
IsizeMin == 0 - (UsizeModulus \div 2)
Usize == 0 .. UsizeMax
Isize == IsizeMin .. IsizeMax

\* the value a wrapping (release-profile) usize operation leaves
Wrap(x) == x % UsizeModulus
\* whether the exact result x of a usize operation is out of range
Overflows(x) == x < 0 \/ x > UsizeMax

\* usize::saturating_sub
saturating_sub(a, b) == IF a >= b THEN a - b ELSE 0
\* usize::saturating_add
saturating_add(a, b) == IF a + b > UsizeMax THEN UsizeMax ELSE a + b
\* `x as isize` for a usize x: two's complement reinterpretation
as_isize(x) == IF x > IsizeMax THEN x - UsizeModulus ELSE x
\* `i as usize` for an isize i
as_usize(i) == i % UsizeModulus
\* unary minus on isize, wrapping: -isize::MIN is isize::MIN
neg_isize(i) == IF i = IsizeMin THEN IsizeMin ELSE 0 - i
neg_isize_overflows(i) == i = IsizeMin

Min(a, b) == IF a <= b THEN a ELSE b
Max(a, b) == IF a >= b THEN a ELSE b

\* Option<usize>: <<>> is None, <<v>> is Some(v)
None == << >>
Some(v) == << v >>
is_some(o) == Len(o) = 1
unwrap_or(o, d) == IF Len(o) = 1 THEN o[1] ELSE d

(* --------------------------- record stream ----------------------------- *)

\* tasd_lib::Packet, reduced to the fields the viewer reads
Packet(k, p, i, f) == [kind |-> k, port |-> p, inputs |-> i, frames |-> f]
InputChunk(p, i) == Packet("InputChunk", p, i, 0)
InputMoment(p) == Packet("InputMoment", p, << >>, 0)
PortController(p) == Packet("PortController", p, << >>, 0)
TotalFrames(f) == Packet("TotalFrames", 0, << >>, f)
OtherPacket == Packet("Other", 0, << >>, 0)

\* ports.sort() on the collected HashSet: ascending, no duplicates
RECURSIVE sorted_ports(_)
sorted_ports(S) ==
    IF S = {} THEN << >>
    ELSE LET m == CHOOSE x \in S : \A y \in S : x <= y
         IN << m >> \o sorted_ports(S \ {m})

\* the port identifiers in the order the records first carry them
RECURSIVE ports_in_order(_, _)
ports_in_order(pk, seen) ==
    IF pk = << >> THEN << >>
    ELSE IF /\ Head(pk).kind \in {"InputChunk", "InputMoment", "PortController"}
            /\ Head(pk).port \notin seen
         THEN << Head(pk).port >> \o ports_in_order(Tail(pk), seen \cup {Head(pk).port})
         ELSE ports_in_order(Tail(pk), seen)

\* detect_ports without the sort: the ports in order of first appearance
detect_ports_unsorted(pk) ==
    IF ports_in_order(pk, {}) = << >> THEN << 1 >> ELSE ports_in_order(pk, {})

\* App::detect_ports
detect_ports(pk) ==
    LET port_set == {pk[i].port : i \in {j \in DOMAIN pk :
                        pk[j].kind \in {"InputChunk", "InputMoment", "PortController"}}}
    IN IF port_set = {} THEN << 1 >> ELSE sorted_ports(port_set)

\* `tf.frames as usize`
frames_as_usize(f) == f % UsizeModulus

\* the inner loop of count_inputs for one port: summed chunk lengths
RECURSIVE inputs_for_port(_, _)
inputs_for_port(pk, port) ==
    IF pk = << >> THEN 0
    ELSE (IF Head(pk).kind = "InputChunk" /\ Head(pk).port = port
          THEN Len(Head(pk).inputs) ELSE 0) + inputs_for_port(Tail(pk), port)

\* the outer loop of count_inputs: max over ports 1..=4
max_inputs(pk) ==
    LET sums == {inputs_for_port(pk, port) : port \in 1 .. 4}
    IN CHOOSE m \in sums : \A x \in sums : x <= m

\* the fallback of count_inputs: number of InputMoment records
count_moments(pk) == Cardinality({i \in DOMAIN pk : pk[i].kind = "InputMoment"})

\* count_inputs whose chunk loop runs over every port the records carry, not 1..=4
count_inputs_any_port(pk) ==
    LET tfs == {i \in DOMAIN pk : pk[i].kind = "TotalFrames"}
        sums == {inputs_for_port(pk, port) : port \in 0 .. 8}
        most == CHOOSE m \in sums : \A x \in sums : x <= m
    IN IF tfs # {}
       THEN frames_as_usize(pk[CHOOSE i \in tfs : \A j \in tfs : i <= j].frames)
       ELSE IF most > 0 THEN most
       ELSE count_moments(pk)

\* count_inputs with a TotalFrames loop that does not return at the first match
count_inputs_last_frames(pk) ==
    LET tfs == {i \in DOMAIN pk : pk[i].kind = "TotalFrames"}
    IN IF tfs # {}
       THEN frames_as_usize(pk[CHOOSE i \in tfs : \A j \in tfs : j <= i].frames)
       ELSE IF max_inputs(pk) > 0 THEN max_inputs(pk)
       ELSE count_moments(pk)

\* App::count_inputs
count_inputs(pk) ==
    LET tfs == {i \in DOMAIN pk : pk[i].kind = "TotalFrames"}
    IN IF tfs # {}
       THEN frames_as_usize(pk[CHOOSE i \in tfs : \A j \in tfs : i <= j].frames)
       ELSE IF max_inputs(pk) > 0 THEN max_inputs(pk)
       ELSE count_moments(pk)

\* collect_port_inputs without the port test: the bytes of every chunk
RECURSIVE collect_all_inputs(_, _)
collect_all_inputs(pk, port) ==
    IF pk = << >> THEN << >>
    ELSE (IF Head(pk).kind = "InputChunk" THEN Head(pk).inputs ELSE << >>)
         \o collect_all_inputs(Tail(pk), port)

\* collect_port_inputs
RECURSIVE collect_port_inputs(_, _)
collect_port_inputs(pk, port) ==
    IF pk = << >> THEN << >>
    ELSE (IF Head(pk).kind = "InputChunk" /\ Head(pk).port = port
          THEN Head(pk).inputs ELSE << >>) \o collect_port_inputs(Tail(pk), port)

(* ------------------------------ cursor --------------------------------- *)

\* InputCursor::next
next(idx, total) == IF idx < saturating_sub(total, 1) THEN idx + 1 ELSE idx

\* InputCursor::prev
prev(idx) == IF idx > 0 THEN idx - 1 ELSE idx

\* jump_to clamping to total instead of total - 1
jump_to_past_end(idx, total, index) ==
    IF index < total THEN index
    ELSE IF total > 0 THEN total
    ELSE idx

\* InputCursor::jump_to
jump_to(idx, total, index) ==
    IF index < total THEN index
    ELSE IF total > 0 THEN total - 1
    ELSE idx

\* InputCursor::move_by
move_by(idx, total, steps) ==
    IF steps > 0
    THEN jump_to(idx, total, saturating_add(idx, as_usize(steps)))
    ELSE IF steps < 0
    THEN jump_to(idx, total, saturating_sub(idx, as_usize(neg_isize(steps))))
    ELSE idx
\* `-steps` overflows for steps = isize::MIN
move_by_overflows(steps) == steps < 0 /\ neg_isize_overflows(steps)

(* ------------------------------ viewport ------------------------------- *)

\* App::update_input_window: the new input_window_start
update_input_window(ws, idx, total, h) ==
    LET scrolled == IF idx < ws THEN idx
                    ELSE IF idx >= Wrap(ws + h)
                    THEN Wrap(saturating_sub(idx, h) + 1)
                    ELSE ws
        max_start == saturating_sub(total, h)
    IN IF scrolled > max_start THEN max_start ELSE scrolled
\* the unchecked `+` of update_input_window that leave the usize range
update_input_window_overflows(ws, idx, h) ==
    /\ ~(idx < ws)
    /\ \/ Overflows(ws + h)
       \/ idx >= Wrap(ws + h) /\ Overflows(saturating_sub(idx, h) + 1)

\* center_cursor without its end clamp
center_cursor_unclamped(idx, total, h) ==
    IF idx >= h \div 2 THEN idx - (h \div 2) ELSE 0

\* center_cursor with the half height rounded up
center_cursor_round_up(idx, total, h) ==
    LET half_height == (h + 1) \div 2
        centered == IF idx >= half_height THEN idx - half_height ELSE 0
        max_start == saturating_sub(total, h)
    IN IF centered > max_start THEN max_start ELSE centered

\* App::center_cursor: the new input_window_start
center_cursor(idx, total, h) ==
    LET half_height == h \div 2
        centered == IF idx >= half_height THEN idx - half_height ELSE 0
        max_start == saturating_sub(total, h)
    IN IF centered > max_start THEN max_start ELSE centered

\* App::cursor_to_top: the new input_index
cursor_to_top(ws, idx, total) == jump_to(idx, total, ws)

\* App::cursor_to_middle: the new input_index
cursor_to_middle(ws, idx, total, h) == jump_to(idx, total, Wrap(ws + (h \div 2)))
cursor_to_middle_overflows(ws, h) == Overflows(ws + (h \div 2))

\* cursor_to_bottom one row below the window
cursor_to_bottom_below(ws, idx, total, h) ==
    jump_to(idx, total, Min(Wrap(ws + h), Wrap(total - 1)))

\* App::cursor_to_bottom: the new input_index
cursor_to_bottom(ws, idx, total, h) ==
    jump_to(idx, total, Min(Wrap(Wrap(ws + h) - 1), Wrap(total - 1)))
cursor_to_bottom_overflows(ws, total, h) ==
    \/ Overflows(ws + h)
    \/ Overflows(Wrap(ws + h) - 1)
    \/ Overflows(total - 1)

(* --------------------------- count prefix ------------------------------ *)

\* App::handle_digit: the new number_buffer
handle_digit(nb, digit) == Some(Wrap(unwrap_or(nb, 0) * 10 + digit))
handle_digit_overflows(nb, digit) == Overflows(unwrap_or(nb, 0) * 10 + digit)

\* App::take_number_buffer: the count returned (the buffer becomes None)
take_number_buffer(nb) == unwrap_or(nb, 1)

(* --------------------------- command line ------------------------------ *)

DigitChars == << "0", "1", "2", "3", "4", "5", "6", "7", "8", "9" >>
\* char::is_ascii_digit
is_ascii_digit(c) == \E i \in DOMAIN DigitChars : DigitChars[i] = c
\* char::to_digit(10) on an ASCII digit
to_digit(c) == (CHOOSE i \in DOMAIN DigitChars : DigitChars[i] = c) - 1
\* char::is_whitespace, on the characters of the model
is_whitespace(c) == c = " "

\* str::trim: drop leading and trailing whitespace
RECURSIVE trim_start(_)
trim_start(s) ==
    IF s # << >> /\ is_whitespace(Head(s)) THEN trim_start(Tail(s)) ELSE s
RECURSIVE trim_end(_)
trim_end(s) ==
    IF s # << >> /\ is_whitespace(s[Len(s)])
    THEN trim_end(SubSeq(s, 1, Len(s) - 1)) ELSE s
trim(s) == trim_end(trim_start(s))

\* the digit loop of usize::from_str: checked_mul(10) then checked_add(digit);
\* None on a non-digit (InvalidDigit) and on overflow (PosOverflow)
RECURSIVE parse_digits(_, _)
parse_digits(s, acc) ==
    IF s = << >> THEN Some(acc)
    ELSE IF ~is_ascii_digit(Head(s)) THEN None
    ELSE IF Overflows(acc * 10 + to_digit(Head(s))) THEN None
    ELSE parse_digits(Tail(s), acc * 10 + to_digit(Head(s)))

\* the digits a text starts with
RECURSIVE leading_digits(_)
leading_digits(s) ==
    IF s # << >> /\ is_ascii_digit(Head(s))
    THEN << Head(s) >> \o leading_digits(Tail(s)) ELSE << >>
\* a parse that stops at the first non-digit instead of rejecting the text
parse_usize_prefix(s) ==
    IF leading_digits(s) = << >> THEN None ELSE parse_digits(leading_digits(s), 0)

\* cmd.parse::<usize>().ok(): an optional leading '+', then one or more digits
parse_usize(s) ==
    LET digits == IF s # << >> /\ Head(s) = "+" THEN Tail(s) ELSE s
    IN IF digits = << >> THEN None ELSE parse_digits(digits, 0)

\* the commands execute_command tells apart
is_quit(cmd) == cmd = << "q" >> \/ cmd = << "q", "u", "i", "t" >>

(* ------------------------------- state --------------------------------- *)

VARIABLES
    packets,             \* App.tasd.packets
    ports,               \* App.ports
    total_inputs,        \* App.cursor.total_inputs
    input_index,         \* App.cursor.input_index
    input_window_start,  \* App.input_window_start
    max_visible_inputs,  \* App.display.max_visible_inputs
    show_debug,          \* App.display.show_debug
    mode,                \* App.mode
    exit,                \* App.exit
    number_buffer,       \* App.number_buffer
    command_buffer,      \* App.command_buffer, a sequence of characters
    pc,                  \* where the process is: the loop of run(), or a single call
    overflow_checks,     \* whether the build panics on integer overflow
    fed,                 \* history: the digits fed since the count was last taken or cancelled
    taken                \* history: what take_number_buffer last returned

vars == << packets, ports, total_inputs, input_index, input_window_start,
           max_visible_inputs, show_debug, mode, exit, number_buffer,
           command_buffer, pc, overflow_checks, fed, taken >>

\* what no handler and no render pass assigns
fixed == << packets, ports, total_inputs, overflow_checks >>

(* ---------------------------- input sets ------------------------------- *)

\* the digit keys pressed in Normal mode
DigitKeys == {0, 1, 2, 6, 9}
\* the panels render_inputs is given: (inner rows, at least 10 columns wide)
PanelSizes == {<< rows, TRUE >> : rows \in 0 .. MaxRows} \cup {<< MaxRows, FALSE >>}
\* the command lines typed while browsing is what is examined
BriefLines == { << "q" >>, << "9" >> }
\* the command lines typed when the command line is what is examined
CommandLines ==
    { << "q" >>, << "q", "u", "i", "t" >>, << " ", "q", " " >>, << "q", "q" >>,
      << "q", "u", "i", "t", "s" >>, << "x" >>, << "-", "1" >>, << " " >>,
      << "0" >>, << "1" >>, << "2" >>, << "3" >>, << "0", "2" >>, << "9" >>,
      << "3", "1" >>, << "3", "2" >>, << "9", "9" >>,
      << "+", "2" >>, << " ", "2", " " >>, << "2", " ", "2" >>, << "2", "x" >> }
\* a stream for every total the sessions start with
SessionStream(n) ==
    IF n = 0 THEN << >>
    ELSE IF n % 2 = 1 THEN << TotalFrames(n), InputChunk(1, << 0 >>) >>
    ELSE << InputChunk(2, [i \in 1 .. n |-> 0]) >>

(* --------------------------- construction ------------------------------ *)

\* App::new on the stream pk, DisplaySettings::new, InputCursor::new
AppNew(pk) ==
    /\ packets = pk
    /\ ports = detect_ports(pk)
    /\ total_inputs = count_inputs(pk)
    /\ input_index = 0
    /\ input_window_start = 0
    /\ max_visible_inputs = DefaultVisibleInputs
    /\ show_debug = FALSE
    /\ mode = "Normal"
    /\ exit = FALSE
    /\ number_buffer = None
    /\ command_buffer = << >>
    /\ fed = << >>
    /\ taken = None

\* main(): the session is constructed, run() is about to draw the first frame
Init ==
    /\ \E n \in 0 .. MaxTotal : AppNew(SessionStream(n))
    /\ overflow_checks \in BOOLEAN
    /\ pc = "draw"

(* ------------------------------ run loop ------------------------------- *)

\* an integer overflow in a build with overflow checks: the process panics
Panic ==
    /\ pc' = "panicked"
    /\ UNCHANGED << fixed, input_index, input_window_start, max_visible_inputs,
                    show_debug, mode, exit, number_buffer, command_buffer, fed, taken >>

\* the loop of run(): `while !app.exit` after a handled event
Loop == pc' = IF exit' THEN "done" ELSE "draw"

\* render_inputs on a panel whose inner area has `rows` rows and is at least 10
\* columns wide (wide) or not
Render(rows, wide) ==
    /\ pc = "draw"
    /\ IF ~wide \/ rows < 2
       THEN /\ pc' = "event"
            /\ UNCHANGED << fixed, input_index, input_window_start, max_visible_inputs,
                            show_debug, mode, exit, number_buffer, command_buffer,
                            fed, taken >>
       ELSE LET h == saturating_sub(rows, 2)
            IN IF update_input_window_overflows(input_window_start, input_index, h)
                  /\ overflow_checks
               THEN Panic
               ELSE /\ max_visible_inputs' = h
                    /\ input_window_start' =
                          update_input_window(input_window_start, input_index,
                                              total_inputs, h)
                    /\ pc' = "event"
                    /\ UNCHANGED << fixed, input_index, show_debug, mode, exit,
                                    number_buffer, command_buffer, fed, taken >>

\* terminal.draw(render) for every panel size of the model
Draw == \E size \in PanelSizes : Render(size[1], size[2])

\* event::read() returns something that is not a key press
OtherEvent ==
    /\ pc = "event"
    /\ pc' = "draw"
    /\ UNCHANGED << fixed, input_index, input_window_start, max_visible_inputs,
                    show_debug, mode, exit, number_buffer, command_buffer, fed, taken >>

\* handle_key_event dispatches a key press to the handler of mode m
KeyIn(m) == pc = "event" /\ mode = m

(* ----------------------- handle_normal_key_event ----------------------- *)

\* a motion arm from the point where the cursor is at idx: update_input_window
\* runs, the count is gone; ovf tells whether the arm overflowed before
Motion(idx, ovf) ==
    IF (ovf \/ update_input_window_overflows(input_window_start, idx, max_visible_inputs))
       /\ overflow_checks
    THEN Panic
    ELSE /\ input_index' = idx
         /\ input_window_start' =
               update_input_window(input_window_start, idx, total_inputs,
                                   max_visible_inputs)
         /\ number_buffer' = None
         /\ fed' = << >>
         /\ pc' = "draw"
         /\ UNCHANGED << fixed, max_visible_inputs, show_debug, mode, exit,
                         command_buffer, taken >>

\* a digit key: handle_digit, then return
KeyDigit(d) ==
    /\ KeyIn("Normal")
    /\ Len(fed) < MaxDigits
    /\ IF handle_digit_overflows(number_buffer, d) /\ overflow_checks
       THEN Panic
       ELSE /\ number_buffer' = handle_digit(number_buffer, d)
            /\ fed' = Append(fed, d)
            /\ pc' = "draw"
            /\ UNCHANGED << fixed, input_index, input_window_start, max_visible_inputs,
                            show_debug, mode, exit, command_buffer, taken >>
Digit == \E d \in DigitKeys : KeyDigit(d)

\* 'q'
KeyQuit ==
    /\ KeyIn("Normal")
    /\ exit' = TRUE
    /\ Loop
    /\ UNCHANGED << fixed, input_index, input_window_start, max_visible_inputs,
                    show_debug, mode, number_buffer, command_buffer, fed, taken >>

\* 'j' | Down
KeyDown ==
    /\ KeyIn("Normal")
    /\ LET count == take_number_buffer(number_buffer)
           steps == as_isize(count)
       IN Motion(move_by(input_index, total_inputs, steps), move_by_overflows(steps))

\* 'k' | Up
KeyUp ==
    /\ KeyIn("Normal")
    /\ LET count == take_number_buffer(number_buffer)
           steps == neg_isize(as_isize(count))
       IN Motion(move_by(input_index, total_inputs, steps),
                 neg_isize_overflows(as_isize(count)) \/ move_by_overflows(steps))

\* the step of a page motion: (page * count) as isize
page_steps(page, count) == as_isize(Wrap(page * count))

\* Ctrl-d
KeyHalfPageDown ==
    /\ KeyIn("Normal")
    /\ LET count == take_number_buffer(number_buffer)
           half_page == max_visible_inputs \div 2
           steps == page_steps(half_page, count)
       IN Motion(move_by(input_index, total_inputs, steps),
                 Overflows(half_page * count) \/ move_by_overflows(steps))

\* Ctrl-u
KeyHalfPageUp ==
    /\ KeyIn("Normal")
    /\ LET count == take_number_buffer(number_buffer)
           half_page == max_visible_inputs \div 2
           steps == neg_isize(page_steps(half_page, count))
       IN Motion(move_by(input_index, total_inputs, steps),
                 \/ Overflows(half_page * count)
                 \/ neg_isize_overflows(page_steps(half_page, count))
                 \/ move_by_overflows(steps))

\* Ctrl-f | PageDown
KeyPageDown ==
    /\ KeyIn("Normal")
    /\ LET count == take_number_buffer(number_buffer)
           page == max_visible_inputs
           steps == page_steps(page, count)
       IN Motion(move_by(input_index, total_inputs, steps),
                 Overflows(page * count) \/ move_by_overflows(steps))

\* Ctrl-b | PageUp
KeyPageUp ==
    /\ KeyIn("Normal")
    /\ LET count == take_number_buffer(number_buffer)
           page == max_visible_inputs
           steps == neg_isize(page_steps(page, count))
       IN Motion(move_by(input_index, total_inputs, steps),
                 \/ Overflows(page * count)
                 \/ neg_isize_overflows(page_steps(page, count))
                 \/ move_by_overflows(steps))

\* the line a pending count names: line.saturating_sub(1)
counted_line(nb) == saturating_sub(take_number_buffer(nb), 1)

\* 'g'
KeyFirst ==
    /\ KeyIn("Normal")
    /\ Motion(jump_to(input_index, total_inputs,
                      IF is_some(number_buffer) THEN counted_line(number_buffer) ELSE 0),
              FALSE)

\* 'G'
KeyLast ==
    /\ KeyIn("Normal")
    /\ Motion(jump_to(input_index, total_inputs,
                      IF is_some(number_buffer) THEN counted_line(number_buffer)
                      ELSE saturating_sub(total_inputs, 1)),
              FALSE)

\* the arms that move the cursor inside the window or the window around the
\* cursor, and call neither take_number_buffer nor update_input_window
InWindow(idx, ws, ovf) ==
    IF ovf /\ overflow_checks
    THEN Panic
    ELSE /\ input_index' = idx
         /\ input_window_start' = ws
         /\ pc' = "draw"
         /\ UNCHANGED << fixed, max_visible_inputs, show_debug, mode, exit,
                         number_buffer, command_buffer, fed, taken >>

\* 'H'
KeyTop ==
    /\ KeyIn("Normal")
    /\ InWindow(cursor_to_top(input_window_start, input_index, total_inputs),
                input_window_start, FALSE)

\* 'M'
KeyMiddle ==
    /\ KeyIn("Normal")
    /\ InWindow(cursor_to_middle(input_window_start, input_index, total_inputs,
                                 max_visible_inputs),
                input_window_start,
                cursor_to_middle_overflows(input_window_start, max_visible_inputs))

\* 'L'
KeyBottom ==
    /\ KeyIn("Normal")
    /\ InWindow(cursor_to_bottom(input_window_start, input_index, total_inputs,
                                 max_visible_inputs),
                input_window_start,
                cursor_to_bottom_overflows(input_window_start, total_inputs,
                                           max_visible_inputs))

\* 'z'
KeyCenter ==
    /\ KeyIn("Normal")
    /\ InWindow(input_index,
                center_cursor(input_index, total_inputs, max_visible_inputs), FALSE)

\* ':'
KeyColon ==
    /\ KeyIn("Normal")
    /\ command_buffer' = << >>
    /\ mode' = "Command"
    /\ pc' = "draw"
    /\ UNCHANGED << fixed, input_index, input_window_start, max_visible_inputs,
                    show_debug, exit, number_buffer, fed, taken >>

\* the '?' arm entering Input mode
KeyHelp_input ==
    /\ KeyIn("Normal")
    /\ mode' = "Input"
    /\ pc' = "draw"
    /\ UNCHANGED << fixed, input_index, input_window_start, max_visible_inputs,
                    show_debug, exit, number_buffer, command_buffer, fed, taken >>

\* '?'
KeyHelp ==
    /\ KeyIn("Normal")
    /\ mode' = "Help"
    /\ pc' = "draw"
    /\ UNCHANGED << fixed, input_index, input_window_start, max_visible_inputs,
                    show_debug, exit, number_buffer, command_buffer, fed, taken >>

\* 'D'
KeyDebug ==
    /\ KeyIn("Normal")
    /\ show_debug' = ~show_debug
    /\ pc' = "draw"
    /\ UNCHANGED << fixed, input_index, input_window_start, max_visible_inputs,
                    mode, exit, number_buffer, command_buffer, fed, taken >>

\* Esc
KeyEsc ==
    /\ KeyIn("Normal")
    /\ number_buffer' = None
    /\ fed' = << >>
    /\ pc' = "draw"
    /\ UNCHANGED << fixed, input_index, input_window_start, max_visible_inputs,
                    show_debug, mode, exit, command_buffer, taken >>

\* the `_` arm with the pending count dropped
KeyUnbound_cancels ==
    /\ KeyIn("Normal")
    /\ number_buffer' = None
    /\ fed' = << >>
    /\ pc' = "draw"
    /\ UNCHANGED << fixed, input_index, input_window_start, max_visible_inputs,
                    show_debug, mode, exit, command_buffer, taken >>

\* any other key: the `_ => {}` arm
KeyUnbound ==
    /\ KeyIn("Normal")
    /\ pc' = "draw"
    /\ UNCHANGED << fixed, input_index, input_window_start, max_visible_inputs,
                    show_debug, mode, exit, number_buffer, command_buffer, fed, taken >>

(* ------------------------ handle_help_key_event ------------------------ *)

\* the leaving arm of Help with 'q' read as the quit key
HelpLeave_quits ==
    /\ KeyIn("Help")
    /\ mode' = "Normal"
    /\ exit' = TRUE
    /\ Loop
    /\ UNCHANGED << fixed, input_index, input_window_start, max_visible_inputs,
                    show_debug, number_buffer, command_buffer, fed, taken >>

\* Esc | 'q' | '?'
HelpLeave ==
    /\ KeyIn("Help")
    /\ mode' = "Normal"
    /\ pc' = "draw"
    /\ UNCHANGED << fixed, input_index, input_window_start, max_visible_inputs,
                    show_debug, exit, number_buffer, command_buffer, fed, taken >>

\* the ignoring arm of Help with the pending count dropped
HelpOther_cancels ==
    /\ KeyIn("Help")
    /\ number_buffer' = None
    /\ fed' = << >>
    /\ pc' = "draw"
    /\ UNCHANGED << fixed, input_index, input_window_start, max_visible_inputs,
                    show_debug, mode, exit, command_buffer, taken >>

\* any other key
HelpOther ==
    /\ KeyIn("Help")
    /\ pc' = "draw"
    /\ UNCHANGED << fixed, input_index, input_window_start, max_visible_inputs,
                    show_debug, mode, exit, number_buffer, command_buffer, fed, taken >>

(* ----------------------- handle_input_key_event ------------------------ *)

\* Esc in Input mode
InputLeave ==
    /\ KeyIn("Input")
    /\ mode' = "Normal"
    /\ pc' = "draw"
    /\ UNCHANGED << fixed, input_index, input_window_start, max_visible_inputs,
                    show_debug, exit, number_buffer, command_buffer, fed, taken >>

\* any other key in Input mode
InputOther ==
    /\ KeyIn("Input")
    /\ pc' = "draw"
    /\ UNCHANGED << fixed, input_index, input_window_start, max_visible_inputs,
                    show_debug, mode, exit, number_buffer, command_buffer, fed, taken >>

(* ---------------------- handle_command_key_event ----------------------- *)

\* Enter: execute_command, then mode = Normal
CmdEnter ==
    /\ KeyIn("Command")
    /\ LET cmd == trim(command_buffer)
           line_num == parse_usize(cmd)
       IN IF is_quit(cmd)
          THEN /\ exit' = TRUE
               /\ UNCHANGED << input_index, input_window_start >>
               /\ command_buffer' = << >>
               /\ mode' = "Normal"
               /\ Loop
               /\ UNCHANGED << fixed, max_visible_inputs, show_debug, number_buffer,
                               fed, taken >>
          ELSE IF is_some(line_num)
          THEN LET idx == jump_to(input_index, total_inputs,
                                  saturating_sub(line_num[1], 1))
               IN IF update_input_window_overflows(input_window_start, idx,
                                                   max_visible_inputs)
                     /\ overflow_checks
                  THEN Panic
                  ELSE /\ input_index' = idx
                       /\ input_window_start' =
                             update_input_window(input_window_start, idx, total_inputs,
                                                 max_visible_inputs)
                       /\ command_buffer' = << >>
                       /\ mode' = "Normal"
                       /\ pc' = "draw"
                       /\ UNCHANGED << fixed, max_visible_inputs, show_debug, exit,
                                       number_buffer, fed, taken >>
          ELSE /\ command_buffer' = << >>
               /\ mode' = "Normal"
               /\ pc' = "draw"
               /\ UNCHANGED << fixed, input_index, input_window_start,
                               max_visible_inputs, show_debug, exit, number_buffer,
                               fed, taken >>

\* the Esc arm of Command without the return to Normal mode
CmdEsc_stays ==
    /\ KeyIn("Command")
    /\ command_buffer' = << >>
    /\ pc' = "draw"
    /\ UNCHANGED << fixed, input_index, input_window_start, max_visible_inputs,
                    show_debug, mode, exit, number_buffer, fed, taken >>

\* the Esc arm of Command without command_buffer.clear()
CmdEsc_keeps_buffer ==
    /\ KeyIn("Command")
    /\ mode' = "Normal"
    /\ pc' = "draw"
    /\ UNCHANGED << fixed, input_index, input_window_start, max_visible_inputs,
                    show_debug, exit, number_buffer, command_buffer, fed, taken >>

\* Esc
CmdEsc ==
    /\ KeyIn("Command")
    /\ command_buffer' = << >>
    /\ mode' = "Normal"
    /\ pc' = "draw"
    /\ UNCHANGED << fixed, input_index, input_window_start, max_visible_inputs,
                    show_debug, exit, number_buffer, fed, taken >>

\* Backspace: command_buffer.pop()
CmdBackspace ==
    /\ KeyIn("Command")
    /\ command_buffer' = IF command_buffer = << >> THEN << >>
                         ELSE SubSeq(command_buffer, 1, Len(command_buffer) - 1)
    /\ pc' = "draw"
    /\ UNCHANGED << fixed, input_index, input_window_start, max_visible_inputs,
                    show_debug, mode, exit, number_buffer, fed, taken >>

\* the Char arm of Command with digits fed to the repeat count
CmdChar_counts(c) ==
    /\ KeyIn("Command")
    /\ IF is_ascii_digit(c)
       THEN /\ number_buffer' = handle_digit(number_buffer, to_digit(c))
            /\ UNCHANGED command_buffer
       ELSE /\ command_buffer' = Append(command_buffer, c)
            /\ UNCHANGED number_buffer
    /\ pc' = "draw"
    /\ UNCHANGED << fixed, input_index, input_window_start, max_visible_inputs,
                    show_debug, mode, exit, fed, taken >>

\* Char(c): command_buffer.push(c)
CmdChar(c) ==
    /\ KeyIn("Command")
    /\ command_buffer' = Append(command_buffer, c)
    /\ pc' = "draw"
    /\ UNCHANGED << fixed, input_index, input_window_start, max_visible_inputs,
                    show_debug, mode, exit, number_buffer, fed, taken >>
\* the character keys that keep the buffer a prefix of a line of L
CmdType(L) ==
    \E l \in L :
        /\ Len(l) > Len(command_buffer)
        /\ SubSeq(l, 1, Len(command_buffer)) = command_buffer
        /\ CmdChar(l[Len(command_buffer) + 1])

\* any other key
CmdOther ==
    /\ KeyIn("Command")
    /\ pc' = "draw"
    /\ UNCHANGED << fixed, input_index, input_window_start, max_visible_inputs,
                    show_debug, mode, exit, number_buffer, command_buffer, fed, taken >>

(* --------------------------- specification ----------------------------- *)

\* the keys of Normal mode
NormalKey ==
    \/ Digit \/ KeyQuit
    \/ KeyDown \/ KeyUp
    \/ KeyHalfPageDown \/ KeyHalfPageUp \/ KeyPageDown \/ KeyPageUp
    \/ KeyFirst \/ KeyLast
    \/ KeyTop \/ KeyMiddle \/ KeyBottom \/ KeyCenter
    \/ KeyColon \/ KeyHelp \/ KeyDebug \/ KeyEsc \/ KeyUnbound

\* the keys of Help mode
HelpKey == HelpLeave \/ HelpOther

\* the keys of Command mode, typing the lines of L
CommandKey(L) == CmdEnter \/ CmdEsc \/ CmdBackspace \/ CmdType(L) \/ CmdOther

\* one step of run(): a frame is drawn, or an event is read and handled
Next == Draw \/ OtherEvent \/ NormalKey \/ HelpKey \/ CommandKey(BriefLines)

\* the viewer, from a constructed session on
Spec == Init /\ [][Next]_vars

(* ===================== claims about the whole viewer =================== *)

\* the decimal value of a run of digits
RECURSIVE DecimalValue(_)
DecimalValue(ds) ==
    IF ds = << >> THEN 0
    ELSE DecimalValue(SubSeq(ds, 1, Len(ds) - 1)) * 10 + ds[Len(ds)]

\* the keys the command surface calls motions
MotionKey ==
    \/ KeyDown \/ KeyUp
    \/ KeyHalfPageDown \/ KeyHalfPageUp \/ KeyPageDown \/ KeyPageUp
    \/ KeyFirst \/ KeyLast
    \/ KeyTop \/ KeyMiddle \/ KeyBottom \/ KeyCenter

\* C1: whenever there are inputs and the viewport height is positive, the window
\* start lies in [0, max(0, total - height)] and the cursor lies inside the
\* window; this holds in every state, so also right after H, M, L and z, which
\* do not call update_input_window.
C1_ViewportInvariant ==
    (total_inputs > 0 /\ max_visible_inputs > 0) =>
        /\ 0 <= input_window_start
        /\ input_window_start <= Max(0, total_inputs - max_visible_inputs)
        /\ input_window_start <= input_index
        /\ input_index < input_window_start + max_visible_inputs

\* a key has just been handled, the window is scrolled to the end and the
\* cursor stands on its last row
C1_Witness ==
    /\ pc = "draw"
    /\ mode = "Normal"
    /\ max_visible_inputs = 2
    /\ total_inputs = MaxTotal
    /\ input_window_start = MaxTotal - 2
    /\ input_index = MaxTotal - 1

\* C4: with an empty stream every motion key, with or without a pending count,
\* completes without a fault and leaves the cursor and the window start at 0.
C4_EmptyStreamMotions ==
    [][(total_inputs = 0 /\ MotionKey) =>
          (pc' # "panicked" /\ input_index' = 0 /\ input_window_start' = 0)]_vars

\* C6: digits d1..dn followed by the down key move the cursor forward by the
\* decimal value of d1..dn, clamped at total - 1; the digit keys themselves
\* change neither the cursor nor the window start nor the mode.
C6_CountedDown ==
    [][/\ (total_inputs > 0 /\ fed # << >> /\ KeyDown) =>
             /\ pc' # "panicked"
             /\ input_index' = Min(input_index + DecimalValue(fed), total_inputs - 1)
       /\ Digit =>
             (pc' = "panicked" \/
                 /\ input_index' = input_index
                 /\ input_window_start' = input_window_start
                 /\ mode' = mode)]_vars

\* C7: with inputs present, g and G with a pending count c put the cursor on
\* min(max(c - 1, 0), total - 1) and clear the count; without a count g puts it
\* on 0 and G on total - 1; the window is reconciled afterwards, so that G
\* without a count leaves window_start = max(0, total - height).
C7_GotoLine ==
    [][(total_inputs > 0 /\ (KeyFirst \/ KeyLast)) =>
          /\ pc' # "panicked"
          /\ number_buffer' = None
          /\ is_some(number_buffer) =>
                input_index' = Min(Max(number_buffer[1] - 1, 0), total_inputs - 1)
          /\ (~is_some(number_buffer) /\ KeyFirst) => input_index' = 0
          /\ (~is_some(number_buffer) /\ KeyLast) =>
                /\ input_index' = total_inputs - 1
                /\ input_window_start' = Max(0, total_inputs - max_visible_inputs)]_vars

(* ===================== claims about the command line =================== *)

\* the viewer with the command line in use: the cursor is moved with j, G and
\* counts, the command lines of CommandLines are typed
NextCommand ==
    \/ Draw \/ OtherEvent
    \/ Digit \/ KeyDown \/ KeyLast \/ KeyColon
    \/ CommandKey(CommandLines)
SpecCommand == Init /\ [][NextCommand]_vars

\* a run of one or more decimal digits
IsDigits(s) == s # << >> /\ \A i \in DOMAIN s : is_ascii_digit(s[i])
\* the text of a non-negative integer: digits, or digits after a plus sign
IsNonNegativeInteger(s) ==
    IsDigits(s) \/ (s # << >> /\ Head(s) = "+" /\ IsDigits(Tail(s)))
\* the integer a run of digit characters denotes
RECURSIVE NumberOf(_)
NumberOf(s) ==
    IF s = << >> THEN 0
    ELSE NumberOf(SubSeq(s, 1, Len(s) - 1)) * 10 + to_digit(s[Len(s)])

\* C8: with inputs present, Enter on a command line holding the decimal digits
\* of N puts the cursor on min(max(N - 1, 0), total - 1), reconciles the
\* window, clears the command buffer and returns to Normal mode.
C8_JumpToLine ==
    [][(total_inputs > 0 /\ IsDigits(command_buffer) /\ CmdEnter) =>
          /\ pc' # "panicked"
          /\ input_index' = Min(Max(NumberOf(command_buffer) - 1, 0), total_inputs - 1)
          /\ input_window_start' =
                update_input_window(input_window_start, input_index',
                                    total_inputs, max_visible_inputs)
          /\ command_buffer' = << >>
          /\ mode' = "Normal"]_vars

\* C9: Enter on a command line that, trimmed, is neither q nor quit nor a
\* non-negative integer changes neither the cursor, the window start, the
\* pending count nor the exit flag, clears the command buffer and returns to
\* Normal mode.
C9_UnknownCommand ==
    [][(/\ CmdEnter
        /\ ~is_quit(trim(command_buffer))
        /\ ~IsNonNegativeInteger(trim(command_buffer))) =>
          /\ input_index' = input_index
          /\ input_window_start' = input_window_start
          /\ number_buffer' = number_buffer
          /\ exit' = exit
          /\ command_buffer' = << >>
          /\ mode' = "Normal"
          /\ pc' = "draw"]_vars

\* Enter is about to be pressed on the line "2x" with the cursor away from
\* line 2 and a count pending
C9_Witness ==
    /\ KeyIn("Command")
    /\ command_buffer = << "2", "x" >>
    /\ input_index = 3
    /\ input_window_start = 2
    /\ number_buffer = Some(9)
    /\ ENABLED CmdEnter

(* ================= claims about the parts taken alone ================== *)

(* ------------------------------ the cursor ----------------------------- *)

\* InputCursor::new with total_inputs then set to any value, as App::new does
InitCursor ==
    /\ packets = << >>
    /\ ports = detect_ports(<< >>)
    /\ total_inputs \in Usize
    /\ input_index = 0
    /\ input_window_start = 0
    /\ max_visible_inputs = DefaultVisibleInputs
    /\ show_debug = FALSE
    /\ mode = "Normal"
    /\ exit = FALSE
    /\ number_buffer = None
    /\ command_buffer = << >>
    /\ fed = << >>
    /\ taken = None
    /\ overflow_checks \in BOOLEAN
    /\ pc = "cursor"

\* a call of a cursor operation that leaves the cursor at idx
CursorCall(idx, ovf) ==
    /\ pc = "cursor"
    /\ IF ovf /\ overflow_checks
       THEN Panic
       ELSE /\ input_index' = idx
            /\ UNCHANGED << fixed, input_window_start, max_visible_inputs, show_debug,
                            mode, exit, number_buffer, command_buffer, pc, fed, taken >>

CursorNext == CursorCall(next(input_index, total_inputs), FALSE)
CursorPrev == CursorCall(prev(input_index), FALSE)
CursorJumpTo ==
    \E index \in Usize : CursorCall(jump_to(input_index, total_inputs, index), FALSE)
CursorMoveBy ==
    \E steps \in Isize :
        CursorCall(move_by(input_index, total_inputs, steps), move_by_overflows(steps))

NextCursor == CursorNext \/ CursorPrev \/ CursorJumpTo \/ CursorMoveBy
SpecCursor == InitCursor /\ [][NextCursor]_vars

\* C2: whatever the total and whatever next, prev, move_by and jump_to are
\* called with, the cursor stays within [0, max(0, total - 1)]; over an empty
\* sequence it stays 0.
C2_CursorInRange ==
    /\ 0 <= input_index
    /\ input_index <= Max(0, total_inputs - 1)
    /\ total_inputs = 0 => input_index = 0

\* the cursor has been moved to the last of UsizeMax inputs
C2_Witness ==
    /\ pc = "cursor"
    /\ total_inputs = UsizeMax
    /\ input_index = UsizeMax - 1

(* ------------------------------ the window ----------------------------- *)

\* any window start, any cursor inside a non-empty sequence, any positive height
InitReconcile ==
    /\ packets = << >>
    /\ ports = detect_ports(<< >>)
    /\ total_inputs \in 1 .. UsizeMax
    /\ input_index \in 0 .. total_inputs - 1
    /\ input_window_start \in Usize
    /\ max_visible_inputs \in 1 .. MaxHeight
    /\ show_debug = FALSE
    /\ mode = "Normal"
    /\ exit = FALSE
    /\ number_buffer = None
    /\ command_buffer = << >>
    /\ fed = << >>
    /\ taken = None
    /\ overflow_checks \in BOOLEAN
    /\ pc = "reconcile"

\* one call of update_input_window
Reconcile ==
    /\ pc = "reconcile"
    /\ IF update_input_window_overflows(input_window_start, input_index,
                                        max_visible_inputs)
          /\ overflow_checks
       THEN Panic
       ELSE /\ input_window_start' =
                  update_input_window(input_window_start, input_index, total_inputs,
                                      max_visible_inputs)
            /\ pc' = "reconciled"
            /\ UNCHANGED << fixed, input_index, max_visible_inputs, show_debug, mode,
                            exit, number_buffer, command_buffer, fed, taken >>

SpecReconcile == InitReconcile /\ [][Reconcile]_vars

\* the window the reconcile rule prescribes, in unbounded integers
RuleWindow(ws, idx, total, h) ==
    LET revealed == IF idx < ws THEN idx
                    ELSE IF idx >= ws + h THEN idx - h + 1
                    ELSE ws
    IN Max(0, Min(revealed, Max(0, total - h)))

\* C3: update_input_window, from any window start, any cursor in [0, total) and
\* any height > 0, yields the window of the rule, which holds the cursor and
\* lies in [0, max(0, total - height)].
C3_ReconcileRule ==
    [][pc = "reconcile" =>
          /\ pc' = "reconciled"
          /\ input_window_start' =
                RuleWindow(input_window_start, input_index, total_inputs,
                           max_visible_inputs)
          /\ input_window_start' <= input_index
          /\ input_index < input_window_start' + max_visible_inputs
          /\ 0 <= input_window_start'
          /\ input_window_start' <= Max(0, total_inputs - max_visible_inputs)]_vars

(* --------------------------- the count prefix -------------------------- *)

\* an empty count prefix
InitCount ==
    /\ packets = << >>
    /\ ports = detect_ports(<< >>)
    /\ total_inputs = 0
    /\ input_index = 0
    /\ input_window_start = 0
    /\ max_visible_inputs = DefaultVisibleInputs
    /\ show_debug = FALSE
    /\ mode = "Normal"
    /\ exit = FALSE
    /\ number_buffer = None
    /\ command_buffer = << >>
    /\ fed = << >>
    /\ taken = None
    /\ overflow_checks \in BOOLEAN
    /\ pc = "count"

\* handle_digit(d)
FeedDigit ==
    \E d \in 0 .. 9 :
        /\ pc = "count"
        /\ Len(fed) < MaxDigits
        /\ IF handle_digit_overflows(number_buffer, d) /\ overflow_checks
           THEN Panic
           ELSE /\ number_buffer' = handle_digit(number_buffer, d)
                /\ fed' = Append(fed, d)
                /\ UNCHANGED << fixed, input_index, input_window_start,
                                max_visible_inputs, show_debug, mode, exit,
                                command_buffer, pc, taken >>

\* take_number_buffer()
Consume ==
    /\ pc = "count"
    /\ taken' = Some(take_number_buffer(number_buffer))
    /\ number_buffer' = None
    /\ fed' = << >>
    /\ UNCHANGED << fixed, input_index, input_window_start, max_visible_inputs,
                    show_debug, mode, exit, command_buffer, pc >>

\* the Esc arm: number_buffer = None
Cancel ==
    /\ pc = "count"
    /\ number_buffer' = None
    /\ fed' = << >>
    /\ UNCHANGED << fixed, input_index, input_window_start, max_visible_inputs,
                    show_debug, mode, exit, command_buffer, pc, taken >>

NextCount == FeedDigit \/ Consume \/ Cancel
SpecCount == InitCount /\ [][NextCount]_vars

\* C5: take_number_buffer returns 1 when no digit was fed since the count was
\* last taken or cancelled, otherwise the decimal value of the digits fed since
\* then (0 for a lone digit 0), and leaves the buffer absent.
C5_ConsumeValue ==
    [][Consume =>
          /\ taken' = Some(IF fed = << >> THEN 1 ELSE DecimalValue(fed))
          /\ number_buffer' = None]_vars

(* ------------------------- the stream derivations ---------------------- *)

\* the records the streams are made of
StreamRecords ==
    {TotalFrames(f) : f \in 0 .. MaxFrames}
    \cup {InputChunk(p, i) : p \in {1, 2, 5}, i \in {<< >>, << 7 >>, << 7, 8 >>}}
    \cup {InputMoment(p) : p \in {1, 5}}
    \cup {PortController(3), OtherPacket}

\* the streams of at most n records
RECURSIVE StreamsUpTo(_)
StreamsUpTo(n) ==
    IF n = 0 THEN {<< >>}
    ELSE LET shorter == StreamsUpTo(n - 1)
         IN shorter \cup {Append(st, r) : st \in shorter, r \in StreamRecords}

\* main() has decoded a stream; App::new has not run yet
InitStream ==
    /\ packets \in StreamsUpTo(MaxPackets)
    /\ ports = << >>
    /\ total_inputs = 0
    /\ input_index = 0
    /\ input_window_start = 0
    /\ max_visible_inputs = DefaultVisibleInputs
    /\ show_debug = FALSE
    /\ mode = "Normal"
    /\ exit = FALSE
    /\ number_buffer = None
    /\ command_buffer = << >>
    /\ fed = << >>
    /\ taken = None
    /\ overflow_checks \in BOOLEAN
    /\ pc = "load"

\* App::new: detect_ports and count_inputs on the decoded stream
Construct ==
    /\ pc = "load"
    /\ ports' = detect_ports(packets)
    /\ total_inputs' = count_inputs(packets)
    /\ pc' = "draw"
    /\ UNCHANGED << packets, overflow_checks, input_index, input_window_start,
                    max_visible_inputs, show_debug, mode, exit, number_buffer,
                    command_buffer, fed, taken >>

SpecStream == InitStream /\ [][Construct]_vars

\* C10 as stated: the total is the frames value of any TotalFrames record the
\* stream holds, whatever else it holds.
C10_AnyTotalFrames ==
    pc = "draw" =>
        \A i \in DOMAIN packets :
            packets[i].kind = "TotalFrames" => total_inputs = packets[i].frames

\* C10 amended: the total is the frames value of the first TotalFrames record
\* of the stream, whatever InputChunk, InputMoment and later TotalFrames
\* records it holds and wherever they stand.
C10_FirstTotalFrames ==
    pc = "draw" =>
        \A i \in DOMAIN packets :
            (/\ packets[i].kind = "TotalFrames"
             /\ \A j \in 1 .. i - 1 : packets[j].kind # "TotalFrames")
                => total_inputs = packets[i].frames

\* a session built from a stream whose chunks and moments would give another
\* total than the TotalFrames record that follows them
C10_Witness ==
    /\ pc = "draw"
    /\ packets = << InputChunk(1, << 7, 8 >>), InputMoment(1), TotalFrames(1) >>
    /\ total_inputs = 1

\* the number of chunk bytes the stream carries for a port
ChunkBytes(port) ==
    Cardinality(UNION { { << i, k >> : k \in DOMAIN packets[i].inputs } :
                           i \in {j \in DOMAIN packets :
                                     /\ packets[j].kind = "InputChunk"
                                     /\ packets[j].port = port} })

\* the largest of a non-empty set of numbers
Largest(S) == CHOOSE m \in S : \A x \in S : x <= m

\* C11: without a TotalFrames record the total is the maximum over ports 1..4
\* of the port's summed chunk lengths if that maximum is positive, and the
\* number of InputMoment records otherwise (0 for a stream with neither).
C11_ChunksThenMoments ==
    (pc = "draw" /\ \A i \in DOMAIN packets : packets[i].kind # "TotalFrames") =>
        total_inputs =
            IF \E port \in 1 .. 4 : ChunkBytes(port) > 0
            THEN Largest({ChunkBytes(port) : port \in 1 .. 4})
            ELSE Cardinality({i \in DOMAIN packets : packets[i].kind = "InputMoment"})

\* a session built from a stream with chunk bytes on ports 2 and 5 and one
\* InputMoment: the total is the byte count of port 2
C11_Witness ==
    /\ pc = "draw"
    /\ packets = << InputChunk(5, << 7, 8 >>), InputMoment(1), InputChunk(2, << 7 >>) >>
    /\ total_inputs = 1

(* ---------------------- the order of the records ----------------------- *)

\* the records of the streams whose order is examined
OrderRecords ==
    {InputChunk(p, i) : p \in {1, 2}, i \in {<< 7 >>, << 7, 8 >>}}
    \cup {InputMoment(5), PortController(3), OtherPacket}

\* the streams of at most n of these records
RECURSIVE OrderStreamsUpTo(_)
OrderStreamsUpTo(n) ==
    IF n = 0 THEN {<< >>}
    ELSE LET shorter == OrderStreamsUpTo(n - 1)
         IN shorter \cup {Append(st, r) : st \in shorter, r \in OrderRecords}

\* main() has decoded one of these streams; App::new has not run yet
InitOrder ==
    /\ packets \in OrderStreamsUpTo(MaxPackets)
    /\ ports = << >>
    /\ total_inputs = 0
    /\ input_index = 0
    /\ input_window_start = 0
    /\ max_visible_inputs = DefaultVisibleInputs
    /\ show_debug = FALSE
    /\ mode = "Normal"
    /\ exit = FALSE
    /\ number_buffer = None
    /\ command_buffer = << >>
    /\ fed = << >>
    /\ taken = None
    /\ overflow_checks \in BOOLEAN
    /\ pc = "load"

SpecOrder == InitOrder /\ [][Construct]_vars

\* the record sequences with the same records as s in another order
Reorderings(s) ==
    { [i \in DOMAIN s |-> s[f[i]]] :
        f \in {g \in [DOMAIN s -> DOMAIN s] :
                  \A a, b \in DOMAIN s : g[a] = g[b] => a = b} }

\* C12: the port set is exactly the distinct ports of the InputChunk,
\* InputMoment and PortController records, strictly ascending, [1] when there
\* is none, never empty and the same for every order of the records.
C12_PortSet ==
    pc = "draw" =>
        LET ids == {packets[i].port : i \in {j \in DOMAIN packets :
                       packets[j].kind \in {"InputChunk", "InputMoment", "PortController"}}}
        IN /\ Len(ports) > 0
           /\ \A i, j \in DOMAIN ports : i < j => ports[i] < ports[j]
           /\ {ports[i] : i \in DOMAIN ports} = IF ids = {} THEN {1} ELSE ids
           /\ ids = {} => ports = << 1 >>
           /\ \A r \in Reorderings(packets) : detect_ports(r) = ports

\* a session built from a stream that carries port 5 before port 3 before
\* port 1
C12_Witness ==
    /\ pc = "draw"
    /\ packets = << InputMoment(5), PortController(3), InputChunk(1, << 7 >>) >>
    /\ ports = << 1, 3, 5 >>

\* the ports a column is collected for
PortIds == 0 .. 5

\* C13 as stated: every reordering of the records gives the same byte sequence
\* for every port, and the same port set.
C13_AnyOrder ==
    pc = "draw" =>
        \A r \in Reorderings(packets) :
            /\ detect_ports(r) = ports
            /\ \A port \in PortIds :
                  collect_port_inputs(r, port) = collect_port_inputs(packets, port)

\* the bytes of a sequence, counted
BagOfBytes(bytes) == [b \in {bytes[i] : i \in DOMAIN bytes} |->
                         Cardinality({i \in DOMAIN bytes : bytes[i] = b})]

\* C13 amended: every reordering of the records gives the same port set and,
\* for every port, the same bytes as a multiset; it gives the same byte sequence
\* whenever it keeps the port's InputChunk records in their relative order.
C13_ChunkOrderKept ==
    pc = "draw" =>
        \A f \in {g \in [DOMAIN packets -> DOMAIN packets] :
                     \A a, b \in DOMAIN packets : g[a] = g[b] => a = b} :
            LET r == [i \in DOMAIN packets |-> packets[f[i]]]
            IN /\ detect_ports(r) = ports
               /\ \A port \in PortIds :
                     /\ BagOfBytes(collect_port_inputs(r, port))
                           = BagOfBytes(collect_port_inputs(packets, port))
                     /\ (\A a, b \in DOMAIN packets :
                            (/\ a < b
                             /\ r[a].kind = "InputChunk" /\ r[a].port = port
                             /\ r[b].kind = "InputChunk" /\ r[b].port = port)
                                => f[a] < f[b])
                          => collect_port_inputs(r, port)
                                = collect_port_inputs(packets, port)

\* a session built from a stream with two different chunks of port 1 and a
\* chunk of port 2 between them
C13_Witness ==
    /\ pc = "draw"
    /\ packets = << InputChunk(1, << 7 >>), InputChunk(2, << 7, 8 >>),
                    InputChunk(1, << 7, 8 >>) >>
    /\ collect_port_inputs(packets, 1) = << 7, 7, 8 >>

(* ================== claims about modes, count and render =============== *)

\* C14: in every reachable state the command buffer is empty whenever the mode
\* is not Command; ':' enters with an empty buffer, Enter and Esc leave with it
\* cleared.
C14_BufferOnlyInCommand ==
    mode # "Command" => command_buffer = << >>

\* the command line was left by Enter on a quit line typed after the cursor
\* had been moved to the last input
C14_Witness ==
    /\ pc = "done"
    /\ exit
    /\ mode = "Normal"
    /\ command_buffer = << >>
    /\ input_index = MaxTotal - 1

\* C15: a key in Help mode changes at most the mode, and that only to Normal:
\* Esc, 'q' and '?' set the mode to Normal and nothing else (the exit flag
\* stays), every other key leaves the whole session as it was.
C15_HelpKeys ==
    [][(pc = "event" /\ mode = "Help") =>
          /\ mode' \in {"Help", "Normal"}
          /\ HelpLeave => mode' = "Normal"
          /\ HelpOther => mode' = "Help"
          /\ UNCHANGED << packets, ports, total_inputs, input_index,
                          input_window_start, max_visible_inputs, show_debug, exit,
                          number_buffer, command_buffer >>]_vars

\* a key is about to be read in Help mode with the cursor moved and a count
\* pending
C15_Witness ==
    /\ KeyIn("Help")
    /\ input_index = 2
    /\ number_buffer = Some(9)
    /\ ~exit
    /\ ENABLED HelpLeave
    /\ ENABLED HelpOther

\* C16: the exit flag is set only by 'q' in Normal mode or by Enter in Command
\* mode on a buffer that trims to q or quit, and is never cleared once set.
C16_ExitOnlyByQuit ==
    [][/\ (~exit /\ exit') =>
             \/ mode = "Normal" /\ KeyQuit
             \/ /\ mode = "Command"
                /\ CmdEnter
                /\ trim(command_buffer) \in {<< "q" >>, << "q", "u", "i", "t" >>}
       /\ exit => exit']_vars

\* the viewer has left its loop with the exit flag set while a count was
\* pending
C16_Witness ==
    /\ pc = "done"
    /\ exit
    /\ number_buffer = Some(2)
    /\ input_index = 1

\* C17: after every motion key of Normal mode and after Esc the repeat count is
\* absent.
C17_CountConsumed ==
    [][(MotionKey \/ KeyEsc) => (pc' = "panicked" \/ number_buffer' = None)]_vars

\* C18: feeding a digit d to the repeat count leaves min(buffer * 10 + d, the
\* largest usize) in the buffer, without wrapping and without a fault.
C18_DigitsSaturate ==
    [][FeedDigit =>
          \E d \in 0 .. 9 :
              /\ fed' = Append(fed, d)
              /\ number_buffer' =
                    Some(Min(unwrap_or(number_buffer, 0) * 10 + d, UsizeMax))]_vars

\* C19: a render pass changes nothing of the session but the viewport height.
C19_RenderSetsHeightOnly ==
    [][Draw => UNCHANGED << input_index, input_window_start, mode, number_buffer,
                            command_buffer, ports, total_inputs, exit >>]_vars

\* C20: the viewport height of the session is positive in every reachable
\* state.
C20_HeightPositive ==
    max_visible_inputs > 0

(* ===================== claims about the motion keys ==================== *)

\* the heights a panel can give: they fit the signed integer of the machine
\* (a panel has at most 65535 rows), as DefaultVisibleInputs does on a real
\* machine but not in UsizeBits bits
HeightFitsIsize == max_visible_inputs <= MaxHeight

\* C21: with height h and consumed count c (1 when none is pending), Ctrl-f and
\* PageDown put the cursor on min(p + h*c, total - 1), Ctrl-b and PageUp on
\* max(p - h*c, 0), Ctrl-d on min(p + (h div 2)*c, total - 1) and Ctrl-u on
\* max(p - (h div 2)*c, 0), and the window is reconciled afterwards.
C21_PageKeys ==
    [][(total_inputs > 0 /\ HeightFitsIsize /\ KeyIn("Normal")) =>
          LET h == max_visible_inputs
              c == IF is_some(number_buffer) THEN number_buffer[1] ELSE 1
              p == input_index
              Lands(target) ==
                  /\ pc' # "panicked"
                  /\ input_index' = target
                  /\ input_window_start' =
                        RuleWindow(input_window_start, target, total_inputs, h)
          IN /\ KeyPageDown => Lands(Min(p + h * c, total_inputs - 1))
             /\ KeyPageUp => Lands(Max(p - h * c, 0))
             /\ KeyHalfPageDown => Lands(Min(p + (h \div 2) * c, total_inputs - 1))
             /\ KeyHalfPageUp => Lands(Max(p - (h \div 2) * c, 0))]_vars

\* C22: with inputs present and a positive height, H puts the cursor on
\* window_start, M on window_start + h div 2 clamped to total - 1, L on
\* min(window_start + h - 1, total - 1), and none of them moves the window.
C22_WindowRelativeKeys ==
    [][(total_inputs > 0 /\ max_visible_inputs > 0 /\ KeyIn("Normal")) =>
          LET h == max_visible_inputs
              Lands(target) ==
                  /\ pc' # "panicked"
                  /\ input_index' = target
                  /\ input_window_start' = input_window_start
          IN /\ KeyTop => Lands(input_window_start)
             /\ KeyMiddle => Lands(Min(input_window_start + h \div 2, total_inputs - 1))
             /\ KeyBottom => Lands(Min(input_window_start + h - 1, total_inputs - 1))]_vars

\* H, M or L is about to be pressed with the cursor on the top row of a window
\* of two rows scrolled down by one
C22_Witness ==
    /\ KeyIn("Normal")
    /\ total_inputs = MaxTotal
    /\ max_visible_inputs = 2
    /\ input_window_start = 1
    /\ input_index = 1
    /\ ENABLED KeyTop /\ ENABLED KeyMiddle /\ ENABLED KeyBottom

\* C23: z leaves the cursor where it is and sets window_start to
\* position - h div 2 when position >= h div 2, else to 0, clamped to at most
\* max(0, total - h).
C23_CenterKey ==
    [][KeyCenter =>
          LET half == max_visible_inputs \div 2
              centered == IF input_index >= half THEN input_index - half ELSE 0
          IN /\ pc' # "panicked"
             /\ input_index' = input_index
             /\ input_window_start' =
                   Min(centered, Max(0, total_inputs - max_visible_inputs))]_vars

\* z is about to be pressed with the cursor on the last input and a window of
\* three rows at the end: centring would pass the end and is clamped
C23_Witness ==
    /\ KeyIn("Normal")
    /\ total_inputs = MaxTotal
    /\ max_visible_inputs = 3
    /\ input_index = MaxTotal - 1
    /\ input_window_start = MaxTotal - 3
    /\ ENABLED KeyCenter

\* C27: for every pending count and every height a downward key never
\* decreases the cursor position and an upward key never increases it.
C27_DirectionKept ==
    [][HeightFitsIsize =>
          /\ (KeyDown \/ KeyHalfPageDown \/ KeyPageDown) =>
                (pc' = "panicked" \/ input_index' >= input_index)
          /\ (KeyUp \/ KeyHalfPageUp \/ KeyPageUp) =>
                (pc' = "panicked" \/ input_index' <= input_index)]_vars

(* ================== claims about keys that move nothing ================ *)

\* C24: in Command mode every key but Enter leaves cursor, window start, repeat
\* count and exit flag as they were: a character key appends to the command
\* buffer, Backspace removes its last character and stays in Command mode, Esc
\* clears it and returns to Normal mode.
C24_CommandKeysFrame ==
    [][(CmdEsc \/ CmdBackspace \/ CmdType(BriefLines) \/ CmdOther) =>
          /\ UNCHANGED << input_index, input_window_start, number_buffer, exit >>
          /\ CmdEsc => (command_buffer' = << >> /\ mode' = "Normal")
          /\ CmdBackspace =>
                /\ mode' = "Command"
                /\ command_buffer' =
                      SubSeq(command_buffer, 1, Max(Len(command_buffer) - 1, 0))
          /\ CmdType(BriefLines) =>
                /\ mode' = "Command"
                /\ Len(command_buffer') = Len(command_buffer) + 1
                /\ SubSeq(command_buffer', 1, Len(command_buffer)) = command_buffer]_vars

\* a key is about to be read in Command mode after the digit 9 was typed there
\* while a count was pending and the cursor had been moved
C24_Witness ==
    /\ KeyIn("Command")
    /\ command_buffer = << "9" >>
    /\ number_buffer = Some(6)
    /\ input_index = 2
    /\ ENABLED CmdEsc /\ ENABLED CmdBackspace

\* C25: in Normal mode a key bound to nothing leaves the whole session as it
\* was, a pending count included, without a fault; Esc changes the repeat count
\* to absent and nothing else.
C25_UnboundAndEsc ==
    [][/\ KeyUnbound =>
             /\ pc' = "draw"
             /\ UNCHANGED << packets, ports, total_inputs, input_index,
                             input_window_start, max_visible_inputs, show_debug,
                             mode, exit, number_buffer, command_buffer >>
       /\ KeyEsc =>
             /\ pc' = "draw"
             /\ number_buffer' = None
             /\ UNCHANGED << packets, ports, total_inputs, input_index,
                             input_window_start, max_visible_inputs, show_debug,
                             mode, exit, command_buffer >>]_vars

\* a key is about to be read in Normal mode with a count pending, the cursor
\* moved and the debug panel on
C25_Witness ==
    /\ KeyIn("Normal")
    /\ number_buffer = Some(6)
    /\ input_index = 2
    /\ show_debug
    /\ ENABLED KeyUnbound /\ ENABLED KeyEsc

\* C26: the mode is never Input: it is always Normal, Command or Help.
C26_InputUnreachable ==
    mode \in {"Normal", "Command", "Help"}

\* Help mode entered after the debug panel was switched on and the cursor
\* moved: several handlers have run and have changed the mode
C26_Witness ==
    /\ pc = "event"
    /\ mode = "Help"
    /\ show_debug
    /\ input_index = 1

\* the Esc key in the modes the viewer can be in
EscKey == KeyEsc \/ HelpLeave \/ CmdEsc

\* C28: from every state with the exit flag unset, whatever the mode, the count
\* and the command buffer, Esc leads to Normal mode with the flag still unset,
\* the frame drawn next keeps that, 'q' then sets the flag and ends the loop,
\* and after that nothing changes any more.
C28_EscThenQuit ==
    [][/\ (pc = "event" /\ ~exit) => ENABLED EscKey
       /\ EscKey => (mode' = "Normal" /\ ~exit' /\ pc' = "draw")
       /\ (Draw /\ mode = "Normal" /\ ~exit) => (mode' = "Normal" /\ ~exit')
       /\ (pc = "event" /\ mode = "Normal" /\ ~exit) => ENABLED KeyQuit
       /\ KeyQuit => (exit' /\ pc' = "done")
       /\ pc = "done" => FALSE]_vars

\* a key is about to be read in Command mode with text in the buffer and a
\* count pending
C28_Witness ==
    /\ KeyIn("Command")
    /\ ~exit
    /\ command_buffer = << "q" >>
    /\ number_buffer = Some(9)
    /\ ENABLED CmdEsc

(* ------------------------ the window, reconciled twice ----------------- *)

\* any window start, any cursor of a short or of a very long sequence, any
\* height render_inputs can store
InitTwice ==
    /\ packets = << >>
    /\ ports = detect_ports(<< >>)
    /\ total_inputs \in (0 .. MaxTotal) \cup (UsizeMax - 1 .. UsizeMax)
    /\ input_index \in 0 .. Max(total_inputs - 1, 0)
    /\ input_window_start \in Usize
    /\ max_visible_inputs \in 0 .. MaxHeight
    /\ show_debug = FALSE
    /\ mode = "Normal"
    /\ exit = FALSE
    /\ number_buffer = None
    /\ command_buffer = << >>
    /\ fed = << >>
    /\ taken = None
    /\ overflow_checks \in BOOLEAN
    /\ pc = "reconcile"

\* a second call of update_input_window, nothing else having changed
ReconcileAgain ==
    /\ pc = "reconciled"
    /\ IF update_input_window_overflows(input_window_start, input_index,
                                        max_visible_inputs)
          /\ overflow_checks
       THEN Panic
       ELSE /\ input_window_start' =
                  update_input_window(input_window_start, input_index, total_inputs,
                                      max_visible_inputs)
            /\ pc' = "settled"
            /\ UNCHANGED << fixed, input_index, max_visible_inputs, show_debug, mode,
                            exit, number_buffer, command_buffer, fed, taken >>

SpecTwice == InitTwice /\ [][Reconcile \/ ReconcileAgain]_vars

\* C29: update_input_window applied a second time leaves the window start the
\* first application gave, and applied to a window that holds the cursor and
\* does not pass the end it leaves the window start as it was.
C29_IdempotentMinimal ==
    [][/\ ReconcileAgain =>
             (pc' = "settled" /\ input_window_start' = input_window_start)
       /\ (/\ Reconcile
           /\ input_window_start <= input_index
           /\ input_index < input_window_start + max_visible_inputs
           /\ input_window_start <= Max(0, total_inputs - max_visible_inputs)) =>
             (pc' = "reconciled" /\ input_window_start' = input_window_start)]_vars

====
